---- MODULE Spec2Model ----
(***************************************************************************)
(* DataStreamer of src/utils.py: the windowed alignment of feature rows    *)
(* against label timestamps done by initialize(), and the batch cursor of  *)
(* next().                                                                 *)
(*                                                                         *)
(* Conventions.                                                            *)
(*  - Timestamps and offsets are integers counting ticks of 1e-8, the      *)
(*    value of FLOAT_ERROR, so that abs(a - b) <= FLOAT_ERROR is           *)
(*    abs(a - b) <= 1 on ticks; float() of an already numeric csv entry    *)
(*    keeps its value.  Sums of timestamps are exact.                      *)
(*  - A file group is a record [x, x_time, y, y_time] holding the rows of  *)
(*    the four csv files of one prefix.  y_files, x_time_files and         *)
(*    y_time_files say whether that list of paths was given or is None.    *)
(*  - Label strings are the naturals 0, 1, ... (their order is the order   *)
(*    of the one-digit strings).                                           *)
(*  - None is written <<>> for a field that later holds a list and 0 for   *)
(*    a field that later holds a number; no action reads a field before    *)
(*    initialize() has assigned it.                                        *)
(*  - class_balancer is None (its default), every x file has at least one  *)
(*    row and all rows of all x files have the same width.                 *)
(*  - A "balanced" weight n / (c * k) is the pair <<n, c * k>>.            *)
(***************************************************************************)
EXTENDS Integers, Sequences, FiniteSets, TLC

VARIABLES
  \* constructor arguments and the contents of the files they name
  x_files, y_files, x_time_files, y_time_files,
  sample_deltas, do_shuffle, batch_size,
  \* fields of the DataStreamer
  features, labels, n_features, n_samples, index,
  classes, sample_weights, class_weights,
  \* position and locals of a running initialize()
  pc, file_index, feature_times, label_times,
  x_index, y_index, samples, window_index, delta_index,
  \* history: matches of the window under construction and of every finished
  \* window, the (file, label) each finished window was built for, the
  \* number of initialize() runs, the next() calls since the last one, and
  \* the value the latest next() returned
  hits, window_hits, window_of, n_init, calls, returned

args == <<x_files, y_files, x_time_files, y_time_files,
          sample_deltas, do_shuffle, batch_size>>
fields == <<features, labels, n_features, n_samples, index,
            classes, sample_weights, class_weights>>
locals == <<file_index, feature_times, label_times,
            x_index, y_index, samples, window_index, delta_index>>
history == <<hits, window_hits, window_of, n_init, calls, returned>>
vars == <<args, fields, pc, locals, history>>

----------------------------------------------------------------------------
\* Bounds of the model

MaxRows == 2        \* feature rows of a file group
MaxLabels == 2      \* label timestamps of a file group
MaxWindow == 2      \* offsets of a window
MaxGroups == 2      \* file groups
MaxSamples == 5     \* samples of the streaming inputs
MaxBatch == 2       \* batch_size
MaxCalls == 4       \* next() calls after one initialize()
MaxInits == 2       \* initialize() runs on one object

\* Program constant, in ticks
FLOAT_ERROR == 1
\* Ticks in one unit of time: 1 / 1.0e-8
TicksPerUnit == 100000000

TimeVals == 0 .. 2
Offsets == {-1, 0}
StartIndexes == -1 .. 1
WindowSkips == -1 .. 1
StepSizes == 0 .. 1

----------------------------------------------------------------------------
\* Python helpers

Abs(a) == IF a < 0 THEN -a ELSE a
Max(a, b) == IF a >= b THEN a ELSE b
Min(a, b) == IF a <= b THEN a ELSE b

\* s[i] raises IndexError unless -len(s) <= i < len(s)
InRange(s, i) == -Len(s) <= i /\ i < Len(s)
\* s[i], with Python's negative indexes counting from the end
Item(s, i) == IF i >= 0 THEN s[i + 1] ELSE s[Len(s) + i + 1]
\* s[lo : hi] for 0 <= lo <= hi
Slice(s, lo, hi) == SubSeq(s, lo + 1, Min(hi, Len(s)))

RECURSIVE Sorted(_)
Sorted(S) ==
  IF S = {} THEN <<>>
  ELSE LET m == CHOOSE a \in S : \A b \in S : a <= b
       IN <<m>> \o Sorted(S \ {m})

Count(y, c) == Cardinality({k \in 1 .. Len(y) : y[k] = c})

\* sklearn's "balanced" weights
compute_sample_weight(y) ==
  LET ks == {y[k] : k \in 1 .. Len(y)}
  IN [k \in 1 .. Len(y) |-> <<Len(y), Cardinality(ks) * Count(y, y[k])>>]
compute_class_weight(cs, y) ==
  [k \in 1 .. Len(cs) |-> <<Len(y), Len(cs) * Count(y, cs[k])>>]

\* shuffle(a): a in the order given by the permutation p of its indexes
Permuted(a, p) == [k \in 1 .. Len(a) |-> a[p[k]]]

----------------------------------------------------------------------------
\* Inputs

IncSeqs(n, T) == {s \in [1 .. n -> T] : \A i \in 1 .. n - 1 : s[i] < s[i + 1]}
TimeSeqs(lo, hi) == UNION {IncSeqs(n, TimeVals) : n \in lo .. hi}
OffsetSeqs == UNION {[1 .. n -> Offsets] : n \in 1 .. MaxWindow}

\* The files of group g: w-wide rows, row i holding 10 * g + i - 1
Group(g, w, xt, yt) ==
  [x |-> [i \in 1 .. Len(xt) |-> [c \in 1 .. w |-> 10 * g + i - 1]],
   x_time |-> xt,
   y |-> [i \in 1 .. Len(yt) |-> (g + i) % 2],
   y_time |-> yt]

SamplingRate(intervals, x_start, window_skip, step_size) ==
  [intervals |-> intervals, x_start |-> x_start,
   window_skip |-> window_skip, step_size |-> step_size,
   window_size |-> Len(intervals)]

\* DataStreamer.__init__ up to its call of initialize()
Constructed ==
  /\ features = <<>> /\ labels = <<>> /\ n_features = 0
  /\ n_samples = 0 /\ index = 0
  /\ classes = <<>> /\ sample_weights = <<>> /\ class_weights = <<>>
  /\ pc = "constructed"
  /\ file_index = 0 /\ feature_times = <<>> /\ label_times = <<>>
  /\ x_index = 0 /\ y_index = 0 /\ samples = <<>>
  /\ window_index = 0 /\ delta_index = 0
  /\ hits = <<>> /\ window_hits = <<>> /\ window_of = <<>>
  /\ n_init = 0 /\ calls = 0 /\ returned = <<>>

\* One file group, every sampling rate
InitAlign ==
  /\ \E xt \in TimeSeqs(1, MaxRows), yt \in TimeSeqs(0, MaxLabels) :
       x_files = <<Group(1, 2, xt, yt)>>
  /\ y_files = TRUE /\ x_time_files = TRUE /\ y_time_files = TRUE
  /\ \E iv \in OffsetSeqs, s \in StartIndexes, k \in WindowSkips, st \in StepSizes :
       sample_deltas = SamplingRate(iv, s, k, st)
  /\ do_shuffle = FALSE /\ batch_size = 1
  /\ Constructed

\* Several file groups
InitGroups ==
  /\ \E n \in 2 .. MaxGroups :
       \E f \in [1 .. n -> IncSeqs(MaxRows, TimeVals) \X TimeSeqs(0, MaxLabels)] :
         x_files = [g \in 1 .. n |-> Group(g, 2, f[g][1], f[g][2])]
  /\ y_files = TRUE /\ x_time_files = TRUE /\ y_time_files = TRUE
  /\ \E s \in StartIndexes, st \in StepSizes :
       sample_deltas = SamplingRate(<<-1, 0>>, s, 1, st)
  /\ do_shuffle = FALSE /\ batch_size = 1
  /\ Constructed

\* N samples, one per label, streamed in batches; every combination of
\* optional files and of do_shuffle
InitStream ==
  /\ \E n \in 0 .. MaxSamples :
       x_files = <<Group(1, 1, [i \in 1 .. MaxSamples |-> 2 * i],
                               [i \in 1 .. n |-> 2 * i])>>
  /\ y_files \in BOOLEAN /\ x_time_files \in BOOLEAN /\ y_time_files \in BOOLEAN
  /\ sample_deltas = SamplingRate(<<0>>, 0, 1, 1)
  /\ do_shuffle \in BOOLEAN
  /\ batch_size \in 1 .. MaxBatch
  /\ Constructed

\* Feature times 0 .. 5 with row i = [i], one label at time 3, offsets -2, -1, 0
ExampleFiles ==
  <<[x |-> [i \in 1 .. 6 |-> <<i - 1>>],
     x_time |-> [i \in 1 .. 6 |-> (i - 1) * TicksPerUnit],
     y |-> <<0>>,
     y_time |-> <<3 * TicksPerUnit>>]>>
ExampleIntervals == <<-2 * TicksPerUnit, -1 * TicksPerUnit, 0>>

InitExample ==
  /\ x_files = ExampleFiles
  /\ y_files = TRUE /\ x_time_files = TRUE /\ y_time_files = TRUE
  /\ \E s \in 0 .. 1 : sample_deltas = SamplingRate(ExampleIntervals, s, 1, 1)
  /\ do_shuffle = FALSE /\ batch_size = 1
  /\ Constructed

Init == InitAlign \/ InitGroups \/ InitStream \/ InitExample

----------------------------------------------------------------------------
\* initialize()

\* features of the current file (line 93)
CurFeatures == x_files[file_index].x

\* lines 88-91; entered from __init__ (line 85) or called again later
initialize ==
  /\ pc \in {"constructed", "idle"}
  /\ n_init < MaxInits
  /\ features' = <<>> /\ labels' = <<>>
  /\ feature_times' = <<>> /\ label_times' = <<>>
  /\ file_index' = 1
  /\ pc' = "files"
  /\ n_init' = n_init + 1
  /\ window_hits' = <<>> /\ window_of' = <<>> /\ returned' = <<>>
  /\ UNCHANGED <<args, n_features, n_samples, index, classes, sample_weights,
                 class_weights, x_index, y_index, samples, window_index,
                 delta_index, hits, calls>>

\* x_index carried over from the previous file instead of restarting
GroupStartCarried ==
  IF file_index = 1 THEN sample_deltas.x_start ELSE x_index

\* x_index at the first label of a file (line 102)
GroupStart == sample_deltas.x_start

\* lines 92-102: read the files of the next group
load_files ==
  /\ pc = "files" /\ file_index <= Len(x_files)
  /\ n_features' = Len(CurFeatures[1])
  /\ labels' = IF y_files THEN labels \o x_files[file_index].y ELSE labels
  /\ feature_times' = IF x_time_files THEN x_files[file_index].x_time
                      ELSE feature_times
  /\ label_times' = IF y_time_files THEN x_files[file_index].y_time
                    ELSE label_times
  /\ n_samples' = IF y_time_files THEN n_samples + Len(x_files[file_index].y_time)
                  ELSE n_samples
  /\ x_index' = GroupStart
  /\ y_index' = 0
  /\ pc' = "labels"
  /\ UNCHANGED <<args, features, index, classes, sample_weights, class_weights,
                 file_index, samples, window_index, delta_index, history>>

\* search position of a new window (line 106)
SearchStart == Max(x_index, 0)

\* lines 103-106: start the window of the next label
begin_window ==
  /\ pc = "labels" /\ y_index < Len(label_times)
  /\ samples' = <<>>
  /\ window_index' = SearchStart
  /\ delta_index' = 1
  /\ hits' = <<>>
  /\ pc' = "deltas"
  /\ UNCHANGED <<args, fields, file_index, feature_times, label_times,
                 x_index, y_index, window_hits, window_of, n_init, calls, returned>>

\* line 103, labels exhausted: on to the next file (line 92)
end_labels ==
  /\ pc = "labels" /\ y_index >= Len(label_times)
  /\ file_index' = file_index + 1
  /\ pc' = "files"
  /\ UNCHANGED <<args, fields, feature_times, label_times, x_index, y_index,
                 samples, window_index, delta_index, history>>

y_time == label_times[y_index + 1]
delta == sample_deltas.intervals[delta_index]
x_time == Item(feature_times, window_index)

\* the comparison without its tolerance
IsMatchExact ==
  /\ window_index < Len(feature_times)
  /\ y_time + delta - x_time = 0

\* the condition of line 109
IsMatch ==
  /\ window_index < Len(feature_times)
  /\ Abs(y_time + delta - x_time) <= FLOAT_ERROR

\* a fill of one entry whatever the width of a row
ZeroScalar == <<0>>

\* the fill of line 113
ZeroRow == [c \in 1 .. Len(CurFeatures[1]) |-> 0]

AtOffset == pc = "deltas" /\ delta_index <= Len(sample_deltas.intervals)

\* line 108 raises IndexError
align_raise ==
  /\ AtOffset
  /\ ~InRange(feature_times, window_index)
  /\ pc' = "IndexError"
  /\ UNCHANGED <<args, fields, locals, history>>

\* a match that leaves the search position where it is
align_match_stuck ==
  /\ AtOffset
  /\ InRange(feature_times, window_index)
  /\ IsMatch
  /\ samples' = Append(samples, Item(CurFeatures, window_index))
  /\ hits' = Append(hits, TRUE)
  /\ delta_index' = delta_index + 1
  /\ UNCHANGED <<args, fields, pc, file_index, feature_times, label_times,
                 x_index, y_index, window_index, window_hits, window_of,
                 n_init, calls, returned>>

\* lines 108-111
align_match ==
  /\ AtOffset
  /\ InRange(feature_times, window_index)
  /\ IsMatch
  /\ samples' = Append(samples, Item(CurFeatures, window_index))
  /\ window_index' = window_index + sample_deltas.window_skip
  /\ hits' = Append(hits, TRUE)
  /\ delta_index' = delta_index + 1
  /\ UNCHANGED <<args, fields, pc, file_index, feature_times, label_times,
                 x_index, y_index, window_hits, window_of, n_init, calls, returned>>

\* a miss that advances the search position as a match does
align_miss_advancing ==
  /\ AtOffset
  /\ InRange(feature_times, window_index)
  /\ ~IsMatch
  /\ samples' = Append(samples, ZeroRow)
  /\ window_index' = window_index + sample_deltas.window_skip
  /\ hits' = Append(hits, FALSE)
  /\ delta_index' = delta_index + 1
  /\ UNCHANGED <<args, fields, pc, file_index, feature_times, label_times,
                 x_index, y_index, window_hits, window_of, n_init, calls, returned>>

\* lines 108-109, 112-113
align_miss ==
  /\ AtOffset
  /\ InRange(feature_times, window_index)
  /\ ~IsMatch
  /\ samples' = Append(samples, ZeroRow)
  /\ hits' = Append(hits, FALSE)
  /\ delta_index' = delta_index + 1
  /\ UNCHANGED <<args, fields, pc, file_index, feature_times, label_times,
                 x_index, y_index, window_index, window_hits, window_of,
                 n_init, calls, returned>>

\* lines 114-115
end_window ==
  /\ pc = "deltas" /\ delta_index > Len(sample_deltas.intervals)
  /\ x_index' = x_index + sample_deltas.step_size
  /\ features' = Append(features, samples)
  /\ window_hits' = Append(window_hits, hits)
  /\ window_of' = Append(window_of, <<file_index, y_index>>)
  /\ y_index' = y_index + 1
  /\ pc' = "labels"
  /\ UNCHANGED <<args, labels, n_features, n_samples, index, classes,
                 sample_weights, class_weights, file_index, feature_times,
                 label_times, samples, window_index, delta_index, hits,
                 n_init, calls, returned>>

\* lines 127-131
Weighted(y) ==
  /\ classes' = IF Len(y) > 0 THEN Sorted({y[k] : k \in 1 .. Len(y)}) ELSE classes
  /\ sample_weights' = IF Len(y) > 0 THEN compute_sample_weight(y)
                       ELSE sample_weights
  /\ class_weights' = IF Len(y) > 0
                      THEN compute_class_weight(Sorted({y[k] : k \in 1 .. Len(y)}), y)
                      ELSE class_weights

\* lines 116-131 with do_shuffle off
finish ==
  /\ pc = "files" /\ file_index > Len(x_files)
  /\ ~do_shuffle
  /\ index' = 0
  /\ Weighted(labels)
  /\ calls' = 0
  /\ pc' = "idle"
  /\ UNCHANGED <<args, features, labels, n_features, n_samples, locals,
                 hits, window_hits, window_of, n_init, returned>>

\* lines 116-131 with do_shuffle on: one permutation for features and labels
finish_shuffled ==
  /\ pc = "files" /\ file_index > Len(x_files)
  /\ do_shuffle
  /\ Len(labels) > 0 => Len(labels) = Len(features)
  /\ \E p \in Permutations(1 .. Len(features)) :
       /\ features' = Permuted(features, p)
       /\ labels' = IF Len(labels) > 0 THEN Permuted(labels, p) ELSE labels
       /\ window_hits' = Permuted(window_hits, p)
       /\ window_of' = Permuted(window_of, p)
       /\ Weighted(IF Len(labels) > 0 THEN Permuted(labels, p) ELSE labels)
  /\ index' = 0
  /\ calls' = 0
  /\ pc' = "idle"
  /\ UNCHANGED <<args, n_features, n_samples, locals, hits, n_init, returned>>

\* line 121: shuffle() of arrays of different lengths raises ValueError
finish_raise ==
  /\ pc = "files" /\ file_index > Len(x_files)
  /\ do_shuffle
  /\ Len(labels) > 0 /\ Len(labels) # Len(features)
  /\ pc' = "ValueError"
  /\ UNCHANGED <<args, fields, locals, history>>

----------------------------------------------------------------------------
\* next(), lines 133-137

\* a cursor that stops at the end of the data
next_clamped ==
  /\ pc = "idle"
  /\ calls < MaxCalls
  /\ returned' = <<Slice(features, index, index + batch_size),
                   Slice(labels, index, index + batch_size)>>
  /\ index' = Min(index + batch_size, Len(features))
  /\ calls' = calls + 1
  /\ UNCHANGED <<args, features, labels, n_features, n_samples, classes,
                 sample_weights, class_weights, pc, locals, hits, window_hits,
                 window_of, n_init>>

\* a next() that removes the batch it returns from the data
next_consuming ==
  /\ pc = "idle"
  /\ calls < MaxCalls
  /\ returned' = <<Slice(features, 0, batch_size), Slice(labels, 0, batch_size)>>
  /\ features' = Slice(features, Min(batch_size, Len(features)), Len(features))
  /\ labels' = Slice(labels, Min(batch_size, Len(labels)), Len(labels))
  /\ index' = index + batch_size
  /\ calls' = calls + 1
  /\ UNCHANGED <<args, n_features, n_samples, classes,
                 sample_weights, class_weights, pc, locals, hits, window_hits,
                 window_of, n_init>>

next ==
  /\ pc = "idle"
  /\ calls < MaxCalls
  /\ returned' = <<Slice(features, index, index + batch_size),
                   Slice(labels, index, index + batch_size)>>
  /\ index' = index + batch_size
  /\ calls' = calls + 1
  /\ UNCHANGED <<args, features, labels, n_features, n_samples, classes,
                 sample_weights, class_weights, pc, locals, hits, window_hits,
                 window_of, n_init>>

----------------------------------------------------------------------------

Next ==
  \/ initialize
  \/ load_files
  \/ begin_window
  \/ end_labels
  \/ align_raise
  \/ align_match
  \/ align_miss
  \/ end_window
  \/ finish
  \/ finish_shuffled
  \/ finish_raise
  \/ next

Spec == Init /\ [][Next]_vars

----------------------------------------------------------------------------
\* What the claims speak about

Done == pc = "idle"
Windows == 1 .. Len(features)
Positions == 1 .. Len(sample_deltas.intervals)

\* The feature-time and label-time series initialize() reads for file g
FeatureTimesOf(g) == IF x_time_files THEN x_files[g].x_time ELSE <<>>
LabelTimesOf(g) == IF y_time_files THEN x_files[g].y_time ELSE <<>>

\* The label timestamp window k was built for, and its index in its file
LabelTimeOf(k) == LabelTimesOf(window_of[k][1])[window_of[k][2] + 1]
Zeros(n) == [c \in 1 .. n |-> 0]
Matches(h) == Cardinality({j \in 1 .. Len(h) : h[j]})

\* C9 and C1: the search position before the j-th offset of the window of
\* label i, given the matches h of the offsets before it
SearchBefore(i, h, j) ==
  Max(sample_deltas.x_start + i * sample_deltas.step_size, 0)
    + sample_deltas.window_skip * Matches(SubSeq(h, 1, j - 1))

\* C1 (as stated): after initialize(), the position for label time t and
\* offset d is a feature row whose time is within FLOAT_ERROR of t + d
\* whenever the file's feature-time series holds such a row anywhere, and
\* the zero vector otherwise.
C1_MatchAnywhere ==
  Done =>
    \A k \in Windows : \A j \in Positions :
      LET g == window_of[k][1]
          xt == FeatureTimesOf(g)
          target == LabelTimeOf(k) + sample_deltas.intervals[j]
          near == {s \in 1 .. Len(xt) : Abs(target - xt[s]) <= FLOAT_ERROR}
      IN IF near # {}
         THEN \E s \in near : features[k][j] = x_files[g].x[s]
         ELSE features[k][j] = Zeros(n_features)

\* C1 (amended): after initialize(), the position for label time t and
\* offset d is the feature row at the search position reached when d is
\* examined, when the feature time at that position is within FLOAT_ERROR of
\* t + d, and the zero vector otherwise; rows elsewhere in the series are
\* never looked at.
C1_MatchAtSearch ==
  Done =>
    \A k \in Windows : \A j \in Positions :
      LET g == window_of[k][1]
          xt == FeatureTimesOf(g)
          target == LabelTimeOf(k) + sample_deltas.intervals[j]
          s == SearchBefore(window_of[k][2], window_hits[k], j)
      IN /\ InRange(xt, s)
         /\ window_hits[k][j] =
              (s < Len(xt) /\ Abs(target - Item(xt, s)) <= FLOAT_ERROR)
         /\ features[k][j] = IF window_hits[k][j] THEN Item(x_files[g].x, s)
                             ELSE Zeros(n_features)

\* a finished window holding a zero-filled position although a row within
\* tolerance exists elsewhere, next to a matched position
C1_Witness ==
  /\ Done
  /\ \E k \in Windows : \E j, m \in Positions :
       /\ ~window_hits[k][j] /\ window_hits[k][m]
       /\ \E s \in 1 .. Len(FeatureTimesOf(window_of[k][1])) :
            Abs(LabelTimeOf(k) + sample_deltas.intervals[j]
                - FeatureTimesOf(window_of[k][1])[s]) <= FLOAT_ERROR

\* C2 (as stated): an offset examined with the search position at or beyond
\* the length of the feature-time series is zero-filled and the window goes
\* on; no error is raised.
C2_OutOfRangeIsMiss ==
  [][(AtOffset /\ window_index >= Len(feature_times))
       => (pc' = "deltas" /\ samples' = Append(samples, ZeroRow))]_vars

\* C3: the features initialize() produces hold one window per label
\* timestamp read, each of window_size positions, each position of
\* n_features entries.
C3_Shape ==
  Done =>
    /\ \A g \in 1 .. Len(x_files) :
         \A i \in 1 .. Len(LabelTimesOf(g)) :
           Cardinality({k \in Windows : window_of[k] = <<g, i - 1>>}) = 1
    /\ \A k \in Windows :
         /\ window_of[k][1] \in 1 .. Len(x_files)
         /\ window_of[k][2] + 1 \in 1 .. Len(LabelTimesOf(window_of[k][1]))
         /\ Len(features[k]) = sample_deltas.window_size
         /\ \A j \in Positions : Len(features[k][j]) = n_features

\* two windows of two-entry rows, one holding a match and one a miss
C3_Witness ==
  /\ Done /\ Len(features) >= 2 /\ n_features = 2
  /\ \E k, m \in Windows : \E j \in Positions :
       window_hits[k][j] /\ ~window_hits[m][j]

IsExample(s) ==
  /\ x_files = ExampleFiles
  /\ sample_deltas = SamplingRate(ExampleIntervals, s, 1, 1)

\* C4 (as stated): the example input with x_start = 0 gives the one window
\* [[1], [2], [3]].
C4_ExampleWindow ==
  (Done /\ IsExample(0)) => features = << << <<1>>, <<2>>, <<3>> >> >>

\* C4 (amended): the example input with x_start = 0 gives the one window
\* [[0], [0], [0]]; it is with x_start = 1 that the window is
\* [[1], [2], [3]].
C4_ExampleZeroWindow ==
  /\ (Done /\ IsExample(0)) => features = << << <<0>>, <<0>>, <<0>> >> >>
  /\ (Done /\ IsExample(1)) => features = << << <<1>>, <<2>>, <<3>> >> >>

\* the example has been aligned from x_start = 0: one window, no match
C4_Witness ==
  /\ Done /\ IsExample(0)
  /\ Len(features) = 1 /\ window_hits = << <<FALSE, FALSE, FALSE>> >>

\* C5: the k-th next() after initialize() returns the samples (k-1)*b up to
\* min(k*b, N), none once (k-1)*b >= N, and leaves the cursor at k*b; with
\* N = 5 and b = 2 the batches hold 2, 2, 1 and then 0 samples.
C5_Batches ==
  (Done /\ calls >= 1) =>
    LET N == Len(features)
        b == batch_size
        lo == (calls - 1) * b
        hi == Min(calls * b, N)
    IN /\ index = calls * b
       /\ Len(returned[1]) = Max(hi - lo, 0)
       /\ \A j \in 1 .. Len(returned[1]) : returned[1][j] = features[lo + j]
       /\ \A j \in 1 .. Len(returned[2]) : returned[2][j] = labels[lo + j]
       /\ (N = 5 /\ b = 2) =>
            Len(returned[1]) = (IF calls <= 2 THEN 2 ELSE IF calls = 3 THEN 1 ELSE 0)

\* the fourth batch of two over five samples: empty, cursor at 8
C5_Witness ==
  /\ Done /\ Len(features) = 5 /\ batch_size = 2
  /\ calls = 4 /\ returned[1] = <<>> /\ index = 8

\* C6: what aligning file g on its own gives, computed from the file and
\* the sampling rate alone: the window of label i from search position s,
\* offset j onwards (cut where the search leaves the series)
RECURSIVE WindowFrom(_, _, _, _)
WindowFrom(g, i, s, j) ==
  LET xt == FeatureTimesOf(g)
      target == LabelTimesOf(g)[i + 1] + sample_deltas.intervals[j]
  IN IF j > Len(sample_deltas.intervals) \/ ~InRange(xt, s) THEN <<>>
     ELSE IF s < Len(xt) /\ Abs(target - Item(xt, s)) <= FLOAT_ERROR
          THEN <<Item(x_files[g].x, s)>>
                 \o WindowFrom(g, i, s + sample_deltas.window_skip, j + 1)
          ELSE <<Zeros(Len(x_files[g].x[1]))>> \o WindowFrom(g, i, s, j + 1)

AlignedAlone(g) ==
  [i \in 1 .. Len(LabelTimesOf(g)) |->
     WindowFrom(g, i - 1,
                Max(sample_deltas.x_start + (i - 1) * sample_deltas.step_size, 0),
                1)]

RECURSIVE Concatenated(_)
Concatenated(n) ==
  IF n = 0 THEN <<>> ELSE Concatenated(n - 1) \o AlignedAlone(n)

\* C6: with shuffling off, the windows initialize() produces are the
\* windows of each file group aligned on its own, concatenated in group
\* order.
C6_GroupsIndependent ==
  (Done /\ ~do_shuffle) => features = Concatenated(Len(x_files))

\* two groups aligned, the first with two labels and a positive step, the
\* second with a match
C6_Witness ==
  /\ Done /\ Len(x_files) >= 2 /\ sample_deltas.step_size > 0
  /\ Len(x_files[1].y_time) = 2
  /\ \E k \in Windows : window_of[k][1] = 2 /\ Matches(window_hits[k]) > 0

\* C7: a step taken while no initialize() runs, which is a call of next(),
\* leaves features, labels, classes, sample_weights and class_weights as
\* they were.
C7_NextFrame ==
  [][(pc = "idle" /\ pc' = "idle")
       => UNCHANGED <<features, labels, classes, sample_weights, class_weights>>]_vars

\* next() has been called twice after a second initialize() on labelled data
C7_Witness ==
  /\ Done /\ n_init = 2 /\ calls = 2
  /\ Len(features) >= 2 /\ Len(labels) >= 2 /\ Len(sample_weights) >= 2

\* C8 (as stated): whenever label files were given, after initialize() there
\* are as many labels as windows and the k-th label is the label of the
\* k-th window.
C8_LabelsParallel ==
  (Done /\ y_files) =>
    /\ Len(labels) = Len(features)
    /\ \A k \in Windows :
         labels[k] = x_files[window_of[k][1]].y[window_of[k][2] + 1]

\* C9: while the window of label i is built, the search position is
\* max(x_start + i * step_size, 0) plus window_skip for each match so far,
\* every offset examined so far has left one position, and every finished
\* window has examined every offset.
C9_SearchPosition ==
  /\ pc = "deltas" =>
       /\ Len(hits) = delta_index - 1
       /\ Len(samples) = delta_index - 1
       /\ window_index = SearchBefore(y_index, hits, delta_index)
  /\ \A k \in 1 .. Len(window_hits) :
       Len(window_hits[k]) = Len(sample_deltas.intervals)

\* the second label's window after a miss followed by a match, with the
\* start index clipped at 0 for the first label
C9_Witness ==
  /\ pc = "deltas" /\ y_index = 1 /\ sample_deltas.step_size = 1
  /\ sample_deltas.x_start = -1
  /\ hits = <<FALSE, TRUE>>

\* C10 (as stated): after any number of initialize() runs n_samples is the
\* number of windows held in features.
C10_SampleCount == Done => n_samples = Len(features)

====
